---- MODULE Spec2Model ----
(***************************************************************************)
(* Model of the picarousel slider controller (createSlider): its index     *)
(* spaces, the goTo / settle state machine, pointer drags and the autoplay *)
(* interval.  Every handler of the controller is one action; the closures  *)
(* created by goTo (the transitionend listener and the fallback timeout)   *)
(* are the records of the queue "pending".                                 *)
(***************************************************************************)
EXTENDS Integers, Sequences, FiniteSets, TLC

\* ---- bounds of the model ----
MaxReal == 3        \* number of real slides ranges over 1..MaxReal
MaxPending == 2     \* goTo closures whose fallback timeout has not fired yet
MaxCalls == 3       \* length of a tracked next()/prev() call sequence
MaxOut == 1         \* how far past the ends of workingSlides a target may lie

\* ---- inputs drawn from the environment ----
SlideWidths == {400}        \* rendered width of the first slide (px)
ContainerWidths == {400}    \* root.clientWidth (px)
DownXs == {100}             \* clientX of a pointerdown
MoveXs == {30, 161}         \* clientX of a pointermove
Directions == {"ltr", "rtl"}
Targets == {"track", "child"}   \* target of a bubbling transitionend event

VARIABLES
  realCount, infinite, loop, direction, autoplay,   \* options / markup
  slideWidth, containerWidth,                       \* measured geometry
  workingSlides,          \* the array workingSlides (slide records)
  domSlides,              \* slide elements that are children of the track
  currentIndex,
  playing, timerId, intervals,   \* autoplay: flag, id held, live intervals
  isDragging, dragStartX, dragCurrentX,
  transitionInProgress,
  manualPause,
  trackX, trackTransition,       \* track.style.transform / transition on?
  activeDots,                    \* indices of the dots carrying "active"
  pending,     \* goTo closures not yet called or timed out (oldest first)
  spent,       \* timeouts still pending for closures already called
  ignored,     \* what the last handler run dropped: "goTo", "pointer", "none"
  retired,     \* how often settle ran for the closures whose timeout fired
  seq,         \* the run of settled next()/prev() calls made last
  status,      \* createSlider: "uncreated", "live", "aborted", "threw",
               \* and "destroyed" once destroy() has run
  env,         \* the page and the options createSlider is called with
  listeners,   \* the event listeners registered, but for transitionend
  dotsContainer,   \* "none", "markup" (found in the page) or "created"
  resizeT,     \* handleResize._t: is a debounce timeout pending?
  op,          \* the handler that ran last, where a property tells it apart
  twin,        \* a second controller, configured with the other value of loop
  sched        \* the timers, where a specification follows the time they take

vars == <<realCount, infinite, loop, direction, autoplay, slideWidth,
          containerWidth, workingSlides, domSlides, currentIndex, playing,
          timerId, intervals, isDragging, dragStartX, dragCurrentX,
          transitionInProgress, manualPause, trackX, trackTransition,
          activeDots, pending, spent, ignored, retired, seq,
          status, env, listeners, dotsContainer, resizeT, op, twin, sched>>

configVars == <<realCount, infinite, loop, direction, autoplay, slideWidth,
                containerWidth, workingSlides, domSlides>>
navVars == <<currentIndex, transitionInProgress, trackX, trackTransition,
             activeDots, pending, spent>>
dragVars == <<isDragging, dragStartX, dragCurrentX>>
autoVars == <<playing, timerId, intervals, manualPause>>
lifeVars == <<status, env, listeners, dotsContainer, resizeT, sched>>

\* the state the program itself holds (everything but the observers)
progVars == <<configVars, navVars, dragVars, autoVars>>

Max(a, b) == IF a >= b THEN a ELSE b
Min(a, b) == IF a <= b THEN a ELSE b
Abs(a) == IF a >= 0 THEN a ELSE -a

\* JavaScript's % (the sign follows the dividend)
JsRem(a, b) == IF a >= 0 THEN a % b ELSE -((-a) % b)

\* ---- slides ----
\* the real slides in DOM order after ensureDomVisualOrder
ensureDomVisualOrder(dir, n) ==
  [v \in 1..n |->
     [realIndex |-> IF dir = "rtl" THEN n - v ELSE v - 1,
      visualIndex |-> v - 1,
      clone |-> FALSE]]

\* setupClones leaving currentIndex on the prepended clone
setupClonesAtZero(slides, inf, n) ==
  IF inf /\ n > 1
  THEN [ws |-> <<[realIndex |-> slides[n].realIndex,
                  visualIndex |-> n, clone |-> TRUE]>>
               \o slides
               \o <<[realIndex |-> slides[1].realIndex,
                     visualIndex |-> -1, clone |-> TRUE]>>,
        cur |-> 0]
  ELSE [ws |-> slides, cur |-> 0]

\* setupClones cloning the boundary slides of a single slide as well
setupClonesAlways(slides, inf, n) ==
  IF inf
  THEN [ws |-> <<[realIndex |-> slides[n].realIndex,
                  visualIndex |-> n, clone |-> TRUE]>>
               \o slides
               \o <<[realIndex |-> slides[1].realIndex,
                     visualIndex |-> -1, clone |-> TRUE]>>,
        cur |-> 1]
  ELSE [ws |-> slides, cur |-> 0]

\* workingSlides and currentIndex as setupClones leaves them
setupClones(slides, inf, n) ==
  IF inf /\ n > 1
  THEN [ws |-> <<[realIndex |-> slides[n].realIndex,
                  visualIndex |-> n, clone |-> TRUE]>>
               \o slides
               \o <<[realIndex |-> slides[1].realIndex,
                     visualIndex |-> -1, clone |-> TRUE]>>,
        cur |-> 1]
  ELSE [ws |-> slides, cur |-> 0]

Len0 == Len(workingSlides)
InRange(i) == i >= 0 /\ i < Len0
SlideAt(i) == workingSlides[i + 1]

computeX(domIndex) ==
  LET base == -slideWidth * domIndex
  IN IF direction = "rtl"
     THEN base + (slideWidth * Len0 - containerWidth)
     ELSE base

\* the buttons buildDots appends to the dots container, by position
Dots == 0..(realCount - 1)

\* updateDots for a given currentIndex: the dots left active, and whether the
\* read of workingSlides[currentIndex].dataset raised a TypeError
updateDots(cur) ==
  IF ~InRange(cur)
  THEN [threw |-> TRUE, active |-> {}]
  ELSE LET v == SlideAt(cur).visualIndex
           k == IF direction = "rtl" THEN realCount - 1 - v ELSE v
       IN [threw |-> FALSE,
           active |-> IF k \in Dots THEN {k} ELSE {}]

\* ---- settle ----
\* st = [cur, x, tr, dots, tip]: the part of the state cleanup writes
NavState == [cur |-> currentIndex, x |-> trackX, tr |-> trackTransition,
             dots |-> activeDots, tip |-> transitionInProgress]

\* cleanup without the jump off the boundary clones
cleanupNoJump(st, index) ==
  LET d == updateDots(index)
  IN [cur |-> index, x |-> st.x, tr |-> st.tr, dots |-> d.active,
      tip |-> IF d.threw THEN st.tip ELSE FALSE]

cleanup(st, index) ==
  LET jump == infinite /\ (index = Len0 - 1 \/ index = 0)
      cur == IF infinite
             THEN IF index = Len0 - 1 THEN 1
                  ELSE IF index = 0 THEN Len0 - 2
                  ELSE index
             ELSE index
      d == updateDots(cur)
  IN [cur |-> cur,
      x |-> IF jump THEN computeX(cur) ELSE st.x,
      tr |-> IF jump THEN FALSE ELSE st.tr,
      dots |-> d.active,
      tip |-> IF d.threw THEN st.tip ELSE FALSE]

\* onEnd that forgets to set called
onEndKeepsCalled(st, rec, e) ==
  IF e = "child" THEN [st |-> st, rec |-> rec]
  ELSE IF rec.called THEN [st |-> st, rec |-> rec]
  ELSE [st |-> cleanup(st, rec.index),
        rec |-> [rec EXCEPT !.listening = FALSE, !.runs = @ + 1]]

\* onEnd(e) of the closure rec; e is the event target, or "none" when the
\* fallback timeout calls onEnd() without an event
onEnd(st, rec, e) ==
  IF e = "child" THEN [st |-> st, rec |-> rec]
  ELSE IF rec.called THEN [st |-> st, rec |-> rec]
  ELSE [st |-> cleanup(st, rec.index),
        rec |-> [rec EXCEPT !.called = TRUE, !.listening = FALSE,
                            !.runs = @ + 1]]

\* a transitionend event reaches the listeners still registered, in the
\* order they were added
RECURSIVE Dispatch(_, _, _)
Dispatch(st, recs, e) ==
  IF recs = <<>> THEN [st |-> st, recs |-> <<>>]
  ELSE LET r == IF Head(recs).listening
                THEN onEnd(st, Head(recs), e)
                ELSE [st |-> st, rec |-> Head(recs)]
           rest == Dispatch(r.st, Tail(recs), e)
       IN [st |-> rest.st, recs |-> <<r.rec>> \o rest.recs]

\* the closures of recs that still wait for their event or timeout
Live(recs) == SelectSeq(recs, LAMBDA r : ~r.called)
Called(recs) == Len(recs) - Len(Live(recs))

SetNav(st, recs) ==
  /\ currentIndex' = st.cur
  /\ trackX' = st.x
  /\ trackTransition' = st.tr
  /\ activeDots' = st.dots
  /\ transitionInProgress' = st.tip
  /\ pending' = recs

\* ---- navigation ----
NewClosure(idx) ==
  [index |-> idx, called |-> FALSE, listening |-> TRUE, runs |-> 0]

\* goTo without the transitionInProgress gate
goToNoGate(index) ==
  LET idx == IF ~infinite
             THEN IF ~loop THEN Max(0, Min(index, Len0 - 1))
                  ELSE JsRem(JsRem(index, Len0) + Len0, Len0)
             ELSE index
  IN /\ Len(pending) + spent < MaxPending
     /\ idx >= -MaxOut /\ idx <= Len0 - 1 + MaxOut
     /\ transitionInProgress' = TRUE
     /\ trackX' = computeX(idx)
     /\ trackTransition' = TRUE
     /\ pending' = Append(pending, NewClosure(idx))
     /\ UNCHANGED <<currentIndex, activeDots, spent>>

\* goTo that commits currentIndex when called, not when the transition ends
goToCommitsEarly(index) ==
  IF transitionInProgress THEN UNCHANGED navVars
  ELSE LET idx == IF ~infinite
                  THEN IF ~loop THEN Max(0, Min(index, Len0 - 1))
                       ELSE JsRem(JsRem(index, Len0) + Len0, Len0)
                  ELSE index
       IN /\ Len(pending) + spent < MaxPending
          /\ idx >= -MaxOut /\ idx <= Len0 - 1 + MaxOut
          /\ transitionInProgress' = TRUE
          /\ trackX' = computeX(idx)
          /\ trackTransition' = TRUE
          /\ pending' = Append(pending, NewClosure(idx))
          /\ currentIndex' = idx
          /\ UNCHANGED <<activeDots, spent>>

goTo(index) ==
  IF transitionInProgress THEN UNCHANGED navVars
  ELSE LET idx == IF ~infinite
                  THEN IF ~loop THEN Max(0, Min(index, Len0 - 1))
                       ELSE JsRem(JsRem(index, Len0) + Len0, Len0)
                  ELSE index
       IN /\ Len(pending) + spent < MaxPending
          /\ idx >= -MaxOut /\ idx <= Len0 - 1 + MaxOut
          /\ transitionInProgress' = TRUE
          /\ trackX' = computeX(idx)
          /\ trackTransition' = TRUE
          /\ pending' = Append(pending, NewClosure(idx))
          /\ UNCHANGED <<currentIndex, activeDots, spent>>

\* next without the hard stop at the last slide
nextNoBoundary == goTo(currentIndex + 1)

\* next(): at the last slide of a finite looping slider it calls
\* goTo(workingSlides.length); wrapToStartSmooth has no caller, so the track
\* never receives a transient clone and domSlides stays as init left it
next ==
  IF ~infinite /\ currentIndex = Len0 - 1
  THEN IF loop THEN goTo(Len0) ELSE UNCHANGED navVars
  ELSE goTo(currentIndex + 1)

\* prev that stops at the first slide whatever loop says
prevStopsAtFirst ==
  IF ~infinite /\ currentIndex = 0
  THEN UNCHANGED navVars
  ELSE goTo(currentIndex - 1)

prev ==
  IF ~infinite /\ currentIndex = 0
  THEN IF loop THEN goTo(Len0 - 1) ELSE UNCHANGED navVars
  ELSE goTo(currentIndex - 1)

\* ---- autoplay ----
AutoState == [playing |-> playing, timerId |-> timerId, intervals |-> intervals]

\* stopAutoplay that clears the interval and leaves the playing flag
stopAutoplayKeepsFlag(a) ==
  [playing |-> a.playing, timerId |-> FALSE,
   intervals |-> IF a.timerId THEN a.intervals - 1 ELSE a.intervals]

stopAutoplay(a) ==
  [playing |-> FALSE, timerId |-> FALSE,
   intervals |-> IF a.timerId THEN a.intervals - 1 ELSE a.intervals]

\* startAutoplay without the stopAutoplay() it begins with
startAutoplayNoStop(a, manual) ==
  IF ~autoplay \/ manual THEN a
  ELSE [playing |-> TRUE, timerId |-> TRUE, intervals |-> a.intervals + 1]

\* startAutoplay that does not consult the autoplay option
startAutoplayUnconfigured(a, manual) ==
  IF manual THEN a
  ELSE LET s == stopAutoplay(a)
       IN [playing |-> TRUE, timerId |-> TRUE, intervals |-> s.intervals + 1]

startAutoplay(a, manual) ==
  IF ~autoplay \/ manual THEN a
  ELSE LET s == stopAutoplay(a)
       IN [playing |-> TRUE, timerId |-> TRUE, intervals |-> s.intervals + 1]

SetAuto(a) ==
  /\ playing' = a.playing
  /\ timerId' = a.timerId
  /\ intervals' = a.intervals

\* ---- observers ----
Idle == ~transitionInProgress /\ pending = <<>> /\ spent = 0 /\ ~isDragging
SeqOff == [on |-> FALSE, start |-> 0, nx |-> 0, pv |-> 0]
\* every goTo started so far has settled: no closure and no timeout waits
\* (transitionInProgress may still be set, when the settle threw)
AllSettled == pending = <<>> /\ spent = 0 /\ ~isDragging

\* seq follows a run next()^nx prev()^pv in which every call was made once
\* the calls before it had settled; any other handler that acts ends the run
SeqAfterNext ==
  IF ~AllSettled THEN SeqOff
  ELSE IF seq.on /\ seq.pv = 0 /\ seq.nx < MaxCalls
       THEN [seq EXCEPT !.nx = @ + 1]
       ELSE [on |-> TRUE, start |-> currentIndex, nx |-> 1, pv |-> 0]

SeqAfterPrev ==
  IF ~AllSettled THEN SeqOff
  ELSE IF seq.on /\ seq.pv < MaxCalls
       THEN [seq EXCEPT !.pv = @ + 1]
       ELSE [on |-> TRUE, start |-> currentIndex, nx |-> 0, pv |-> 1]

\* a goTo requested while a transition is in flight
DroppedGoTo == IF transitionInProgress THEN "goTo" ELSE "none"

\* ---- the page, the options and the listeners ----
\* listeners createSlider registers outside init(): a click listener on
\* each button the page has, hover (when pauseOnHover) and resize
OuterListeners(e) ==
  {"resize"}
    \cup (IF "btnPrev" \in e.buttons THEN {"prevClick"} ELSE {})
    \cup (IF "btnNext" \in e.buttons THEN {"nextClick"} ELSE {})
    \cup (IF "btnToggle" \in e.buttons THEN {"toggleClick"} ELSE {})
    \cup (IF e.pauseOnHover THEN {"mouseenter", "mouseleave"} ELSE {})

\* listeners init() registers: buildDots and addPointerListeners
InitListeners == {"dotsClick", "pointerdown", "pointermove", "pointerup",
                  "blur"}

\* op while no property needs to tell the last handler apart
NoOp == [name |-> "other", arg |-> 0]
\* twin while no second controller is being followed
NoTwin == [on |-> FALSE]
\* sched while the time the timers take is not being followed
NoSched == [on |-> FALSE]

\* the page of a slider that createSlider finds complete
PageOf(n, dir) ==
  [root |-> TRUE, track |-> TRUE, slides |-> n, direction |-> dir,
   dots |-> TRUE, buttons |-> {"btnPrev", "btnNext", "btnToggle"},
   pauseOnHover |-> TRUE]

\* ---- initial state: the state createSlider returns in ----
Init ==
  /\ realCount \in 1..MaxReal
  /\ infinite \in BOOLEAN
  /\ loop \in BOOLEAN
  /\ direction \in Directions
  /\ autoplay \in BOOLEAN
  /\ slideWidth \in SlideWidths
  /\ containerWidth \in ContainerWidths
  /\ LET c == setupClones(ensureDomVisualOrder(direction, realCount),
                          infinite, realCount)
     IN /\ workingSlides = c.ws
        /\ domSlides = c.ws
        /\ currentIndex = c.cur
        /\ trackX = (-slideWidth * c.cur)
                    + (IF direction = "rtl"
                       THEN slideWidth * Len(c.ws) - containerWidth ELSE 0)
        /\ activeDots =
             LET v == c.ws[c.cur + 1].visualIndex
                 k == IF direction = "rtl" THEN realCount - 1 - v ELSE v
             IN IF k \in 0..(realCount - 1) THEN {k} ELSE {}
        /\ seq = [on |-> TRUE, start |-> c.cur, nx |-> 0, pv |-> 0]
  /\ trackTransition = FALSE
  /\ playing = autoplay
  /\ timerId = autoplay
  /\ intervals = IF autoplay THEN 1 ELSE 0
  /\ isDragging = FALSE
  /\ dragStartX = 0
  /\ dragCurrentX = 0
  /\ transitionInProgress = FALSE
  /\ manualPause = FALSE
  /\ pending = <<>>
  /\ spent = 0
  /\ ignored = "none"
  /\ retired = {}
  /\ status = "live"
  /\ env = PageOf(realCount, direction)
  /\ listeners = OuterListeners(env) \cup InitListeners
  /\ dotsContainer = "markup"
  /\ resizeT = FALSE
  /\ op = NoOp
  /\ twin = NoTwin
  /\ sched = NoSched

\* ---- actions ----
CallNext ==
  /\ next
  /\ ignored' = DroppedGoTo
  /\ seq' = SeqAfterNext
  /\ UNCHANGED <<configVars, dragVars, autoVars, retired, lifeVars, op,
                 twin>>

CallPrev ==
  /\ prev
  /\ ignored' = DroppedGoTo
  /\ seq' = SeqAfterPrev
  /\ UNCHANGED <<configVars, dragVars, autoVars, retired, lifeVars, op,
                 twin>>

\* the dot built for visual index i carries domIndex (infinite ? i+1 : i)
goToUserIndex(userVisualIndex) ==
  goTo(IF infinite THEN userVisualIndex + 1 ELSE userVisualIndex)

CallGoToUserIndex ==
  \E i \in 0..(realCount - 1) :
    /\ goToUserIndex(i)
    /\ ignored' = DroppedGoTo
    /\ seq' = SeqOff
    /\ UNCHANGED <<configVars, dragVars, autoVars, retired, lifeVars, op,
                   twin>>

onDotsClick(k) ==
  LET visualIndex == IF direction = "rtl" THEN realCount - 1 - k ELSE k
  IN goTo(IF infinite THEN visualIndex + 1 ELSE visualIndex)

DotClick ==
  \E k \in 0..(realCount - 1) :
    /\ onDotsClick(k)
    /\ ignored' = DroppedGoTo
    /\ seq' = SeqOff
    /\ UNCHANGED <<configVars, dragVars, autoVars, retired, lifeVars, op,
                   twin>>

\* the setInterval callback of startAutoplay
autoplayTick ==
  IF ~transitionInProgress
  THEN IF direction = "rtl" THEN next ELSE prev
  ELSE UNCHANGED navVars

AutoplayTick ==
  /\ intervals > 0
  /\ autoplayTick
  /\ ignored' = DroppedGoTo
  /\ seq' = SeqOff
  /\ UNCHANGED <<configVars, dragVars, autoVars, retired, lifeVars, op,
                 twin>>

\* ---- pointer handlers ----
pointerDown(x) ==
  /\ isDragging' = TRUE
  /\ dragStartX' = x
  /\ dragCurrentX' = x
  /\ transitionInProgress' = FALSE
  /\ SetAuto(stopAutoplay(AutoState))
  /\ trackTransition' = FALSE
  /\ UNCHANGED <<currentIndex, trackX, activeDots, pending, spent,
                 manualPause>>

pointerMove(x) ==
  IF ~isDragging
  THEN UNCHANGED <<navVars, dragVars>>
  ELSE /\ dragCurrentX' = x
       /\ trackX' = computeX(currentIndex) + (x - dragStartX)
       /\ trackTransition' = FALSE
       /\ UNCHANGED <<currentIndex, transitionInProgress, activeDots,
                      pending, spent, isDragging, dragStartX>>

\* the navigation pointerUp commits to for a displacement diff
release(diff) ==
  IF Abs(diff) > 40 /\ Abs(diff) * 100 > slideWidth * 15
  THEN IF diff > 0 THEN prev ELSE next
  ELSE goTo(currentIndex)

pointerUp ==
  IF ~isDragging
  THEN UNCHANGED <<navVars, dragVars, autoVars>>
  ELSE /\ isDragging' = FALSE
       /\ release(dragCurrentX - dragStartX)
       /\ SetAuto(IF autoplay THEN startAutoplay(AutoState, manualPause)
                  ELSE AutoState)
       /\ UNCHANGED <<dragStartX, dragCurrentX, manualPause>>

\* a transitionend event reaching the track
transitionEnd(e) ==
  LET r == Dispatch(NavState, pending, e)
  IN /\ SetNav(r.st, Live(r.recs))
     /\ spent' = spent + Called(r.recs)

\* the setTimeout callback of the oldest closure not yet called:
\* if (!called) onEnd()
fallback ==
  LET r == onEnd(NavState, Head(pending), "none")
  IN /\ SetNav(r.st, Tail(pending))
     /\ UNCHANGED spent

PointerDown ==
  \E x \in DownXs :
    /\ pointerDown(x)
    /\ ignored' = "none"
    /\ seq' = SeqOff
    /\ UNCHANGED <<configVars, retired, lifeVars, op, twin>>

PointerMove ==
  \E x \in MoveXs :
    /\ pointerMove(x)
    /\ ignored' = (IF isDragging THEN "none" ELSE "pointer")
    /\ seq' = (IF isDragging THEN SeqOff ELSE seq)
    /\ UNCHANGED <<configVars, autoVars, retired, lifeVars, op, twin>>

PointerUp ==
  /\ pointerUp
  /\ ignored' = (IF isDragging THEN "none" ELSE "pointer")
  /\ seq' = (IF isDragging THEN SeqOff ELSE seq)
  /\ UNCHANGED <<configVars, retired, lifeVars, op, twin>>

\* a transitionend event; one that no listener acts on changes nothing
TransitionEnd ==
  \E e \in Targets :
    IF Dispatch(NavState, pending, e).recs = pending THEN UNCHANGED vars
    ELSE /\ transitionEnd(e)
         /\ ignored' = "none"
         /\ UNCHANGED <<configVars, dragVars, autoVars, retired, seq,
                        lifeVars, op, twin>>

FallbackTimer ==
  /\ pending # <<>>
  /\ fallback
  /\ retired' = retired \cup {onEnd(NavState, Head(pending), "none").rec.runs}
  /\ ignored' = "none"
  /\ UNCHANGED <<configVars, dragVars, autoVars, seq, lifeVars, op, twin>>

\* the setTimeout callback of a closure already called: nothing to do
SpentTimer ==
  /\ spent > 0
  /\ spent' = spent - 1
  /\ retired' = retired \cup {1}
  /\ ignored' = "none"
  /\ UNCHANGED <<configVars, currentIndex, transitionInProgress, trackX,
                 trackTransition, activeDots, pending, dragVars, autoVars,
                 seq, lifeVars, op, twin>>

Next ==
  \/ CallNext
  \/ CallPrev
  \/ CallGoToUserIndex
  \/ DotClick
  \/ AutoplayTick
  \/ PointerDown
  \/ PointerMove
  \/ PointerUp
  \/ TransitionEnd
  \/ FallbackTimer
  \/ SpentTimer

Spec == Init /\ [][Next]_vars

\* the fallback timeouts are timers of the event loop: each one fires
FairSpec == Spec /\ WF_vars(FallbackTimer) /\ WF_vars(SpentTimer)

\* ================= the controller's whole life =================
\* A second specification: createSlider runs as an action on a page that
\* may be incomplete, and the handlers of the toggle button, hover, blur,
\* resize, play(), pause() and destroy() act beside those of Spec.
LifeMaxReal == 2      \* slides of the page range over 0..LifeMaxReal
LifeMaxPending == 1   \* fallback timeouts outstanding at a time
SparseMaxReal == 1    \* slides of the pages without hover pause or buttons

\* values of options.direction; "undefined" stands for an absent option
DirectionOptions == {"undefined", "rtl", "RTL", "up"}
PauseOnHovers == BOOLEAN
\* pointer positions of a drag from DownXs: 160 lies exactly the threshold
\* max(40, 0.15 * 400) = 60 away (MoveXs of Spec has the position one pixel
\* further), 30 lies beyond the threshold leftwards
LifeMoveXs == {30, 160}
PageDots == {FALSE}       \* does the page hold a dots container already?
\* the buttons root.querySelector finds: all three or none
PageButtons == {{"btnPrev", "btnNext", "btnToggle"}, {}}

obsVars == <<ignored, retired, seq>>

\* String.prototype.toLowerCase on the strings that occur
toLowerCase(str) ==
  CASE str = "RTL" -> "rtl"
    [] str = "LTR" -> "ltr"
    [] OTHER -> str

\* the binding "direction" after the destructuring of options: the default
\* is taken (and lower-cased) only for an absent option
directionBinding(o) ==
  IF o = "undefined" THEN toLowerCase("ltr") ELSE o

\* the pages createSlider may be pointed at: without a root there is no
\* track, without a track no slides
Pages ==
  {[root |-> r, track |-> t, slides |-> n, direction |-> d, dots |-> k,
    buttons |-> b, pauseOnHover |-> h] :
     r \in BOOLEAN, t \in BOOLEAN, n \in 0..LifeMaxReal,
     d \in DirectionOptions, k \in PageDots, b \in PageButtons,
     h \in PauseOnHovers}

WellFormedPage(e) ==
  /\ ~e.root => ~e.track
  /\ ~e.track => e.slides = 0

\* pages that lack hover pause or the buttons are enumerated up to
\* SparseMaxReal slides only, and lack one of the two
EnumeratedPage(e) ==
  \/ e.pauseOnHover /\ e.buttons # {}
  \/ e.slides <= SparseMaxReal /\ (e.pauseOnHover \/ e.buttons # {})

\* the state when createSlider is entered and has destructured its options
LifeInit ==
  /\ status = "uncreated"
  /\ env \in {e \in Pages : WellFormedPage(e) /\ EnumeratedPage(e)}
  /\ infinite \in BOOLEAN
  /\ loop \in (IF infinite THEN {FALSE} ELSE BOOLEAN)  \* read when finite only
  /\ autoplay \in BOOLEAN
  /\ direction = directionBinding(env.direction)
  /\ realCount = 0
  /\ slideWidth = 0
  /\ containerWidth \in ContainerWidths
  /\ workingSlides = <<>>
  /\ domSlides = ensureDomVisualOrder("ltr", env.slides)
  /\ currentIndex = 0
  /\ trackX = 0
  /\ trackTransition = FALSE
  /\ activeDots = {}
  /\ playing = FALSE
  /\ timerId = FALSE
  /\ intervals = 0
  /\ isDragging = FALSE
  /\ dragStartX = 0
  /\ dragCurrentX = 0
  /\ transitionInProgress = FALSE
  /\ manualPause = FALSE
  /\ pending = <<>>
  /\ spent = 0
  /\ listeners = {}
  /\ dotsContainer = (IF env.dots THEN "markup" ELSE "none")
  /\ resizeT = FALSE
  /\ ignored = "none"
  /\ retired = {}
  /\ seq = SeqOff
  /\ op = NoOp
  /\ twin = NoTwin
  /\ sched = NoSched

\* createSlider without its early return for a track without slides
createSliderAbortsNoSlideCheck(e) == ~e.root \/ ~e.track

\* the early returns of createSlider: root, track or slides not found

createSliderAborts(e) == ~e.root \/ ~e.track \/ e.slides = 0

\* createSlider from the validation of direction to its return
CreateSlider ==
  /\ status = "uncreated"
  /\ UNCHANGED <<infinite, loop, autoplay, containerWidth, isDragging,
                 dragStartX, dragCurrentX, transitionInProgress,
                 manualPause, pending, spent, env, resizeT, obsVars, op,
                 twin, sched>>
  /\ IF direction # "ltr" /\ direction # "rtl"
     THEN \* direction is a const binding: "direction = 'ltr'" throws
          /\ status' = "threw"
          /\ UNCHANGED <<realCount, direction, slideWidth, workingSlides,
                         domSlides, currentIndex, trackX, trackTransition,
                         activeDots, playing, timerId, intervals, listeners,
                         dotsContainer>>
     ELSE IF createSliderAborts(env)
     THEN /\ status' = "aborted"
          /\ UNCHANGED <<realCount, direction, slideWidth, workingSlides,
                         domSlides, currentIndex, trackX, trackTransition,
                         activeDots, playing, timerId, intervals, listeners,
                         dotsContainer>>
     ELSE LET n == env.slides
              c == setupClones(ensureDomVisualOrder(direction, n),
                               infinite, n)
          IN /\ realCount' = n
             /\ UNCHANGED direction
             /\ workingSlides' = c.ws
             /\ domSlides' = c.ws
             /\ currentIndex' = c.cur
             /\ slideWidth' \in (IF n > 0 THEN SlideWidths ELSE {0})
             /\ trackX' = (-slideWidth' * c.cur)
                          + (IF direction = "rtl"
                             THEN slideWidth' * Len(c.ws) - containerWidth
                             ELSE 0)
             /\ trackTransition' = FALSE
             /\ dotsContainer' = (IF env.dots THEN "markup" ELSE "created")
             /\ IF c.ws = <<>>
                THEN \* buildDots: updateDots reads workingSlides[0].dataset
                     /\ status' = "threw"
                     /\ activeDots' = {}
                     /\ listeners' = OuterListeners(env) \cup {"dotsClick"}
                     /\ UNCHANGED <<playing, timerId, intervals>>
                ELSE /\ status' = "live"
                     /\ activeDots' =
                          LET v == c.ws[c.cur + 1].visualIndex
                              k == IF direction = "rtl" THEN n - 1 - v ELSE v
                          IN IF k \in 0..(n - 1) THEN {k} ELSE {}
                     /\ listeners' = OuterListeners(env) \cup InitListeners
                     /\ playing' = autoplay
                     /\ timerId' = autoplay
                     /\ intervals' = (IF autoplay THEN 1 ELSE 0)

IsLive == status = "live"
\* createSlider has returned the controller object: its methods can be
\* called, also after destroy()
Returned == status \in {"live", "destroyed"}

\* the step leaves at most LifeMaxPending fallback timeouts outstanding
FewPending == Len(pending') + spent' <= LifeMaxPending

\* op after a call made while nothing is outstanding
OpFromIdle(name, arg) ==
  IF Idle THEN [name |-> name, arg |-> arg] ELSE NoOp

\* next() and prev() of the returned object
LifeCallNext ==
  /\ Returned
  /\ next
  /\ FewPending
  /\ op' = NoOp
  /\ UNCHANGED <<configVars, dragVars, autoVars, lifeVars, obsVars, twin>>

LifeCallPrev ==
  /\ Returned
  /\ prev
  /\ FewPending
  /\ op' = NoOp
  /\ UNCHANGED <<configVars, dragVars, autoVars, lifeVars, obsVars, twin>>

\* a click on the next button: onNextClick calls next()
NextClick ==
  /\ "nextClick" \in listeners
  /\ next
  /\ FewPending
  /\ op' = NoOp
  /\ UNCHANGED <<configVars, dragVars, autoVars, lifeVars, obsVars, twin>>

\* a click on the prev button: onPrevClick calls prev()
PrevClick ==
  /\ "prevClick" \in listeners
  /\ prev
  /\ FewPending
  /\ op' = NoOp
  /\ UNCHANGED <<configVars, dragVars, autoVars, lifeVars, obsVars, twin>>

LifeGoToUserIndex ==
  \E i \in 0..(realCount - 1) :
    /\ Returned
    /\ goToUserIndex(i)
    /\ FewPending
    /\ op' = OpFromIdle("goToUserIndex", i)
    /\ UNCHANGED <<configVars, dragVars, autoVars, lifeVars, obsVars, twin>>

\* a click on the dot whose data-visual-index is k
LifeDotClick ==
  \E k \in 0..(realCount - 1) :
    /\ "dotsClick" \in listeners
    /\ onDotsClick(k)
    /\ FewPending
    /\ op' = OpFromIdle("dot", k)
    /\ UNCHANGED <<configVars, dragVars, autoVars, lifeVars, obsVars, twin>>

LifeAutoplayTick ==
  /\ intervals > 0
  /\ autoplayTick
  /\ FewPending
  /\ op' = [name |-> "tick", arg |-> 0]
  /\ UNCHANGED <<configVars, dragVars, autoVars, lifeVars, obsVars, twin>>

LifePointerDown ==
  \E x \in DownXs :
    /\ "pointerdown" \in listeners
    /\ pointerDown(x)
    /\ op' = NoOp
    /\ UNCHANGED <<configVars, lifeVars, obsVars, twin>>

\* handlePointerMove: if (!isDragging) return
LifePointerMove ==
  \E x \in LifeMoveXs :
    /\ "pointermove" \in listeners
    /\ isDragging
    /\ pointerMove(x)
    /\ op' = NoOp
    /\ UNCHANGED <<configVars, autoVars, lifeVars, obsVars, twin>>

\* handlePointerUp: if (isDragging) pointerUp()
LifePointerUp ==
  /\ "pointerup" \in listeners
  /\ isDragging
  /\ pointerUp
  /\ FewPending
  /\ op' = [name |-> "release", arg |-> 0]
  /\ UNCHANGED <<configVars, lifeVars, obsVars, twin>>

\* handleBlur: if (isDragging) pointerUp()
Blur ==
  /\ "blur" \in listeners
  /\ isDragging
  /\ pointerUp
  /\ FewPending
  /\ op' = [name |-> "release", arg |-> 0]
  /\ UNCHANGED <<configVars, lifeVars, obsVars, twin>>

\* op after play(), pause() or a toggle click made while no transition is
\* in flight: op.arg tells whether it found an interval running
ControlOp ==
  IF ~transitionInProgress /\ pending = <<>> /\ spent = 0
  THEN [name |-> "control", arg |-> IF intervals > 0 THEN 1 ELSE 0]
  ELSE NoOp

\* play() of the returned object
Play ==
  /\ Returned
  /\ manualPause' = FALSE
  /\ SetAuto(startAutoplay(AutoState, FALSE))
  /\ op' = ControlOp
  /\ UNCHANGED <<configVars, navVars, dragVars, lifeVars, obsVars, twin>>

\* pause() of the returned object
Pause ==
  /\ Returned
  /\ manualPause' = TRUE
  /\ SetAuto(stopAutoplay(AutoState))
  /\ op' = ControlOp
  /\ UNCHANGED <<configVars, navVars, dragVars, lifeVars, obsVars, twin>>

onToggleClick ==
  IF playing
  THEN /\ manualPause' = TRUE
       /\ SetAuto(stopAutoplay(AutoState))
  ELSE /\ manualPause' = FALSE
       /\ SetAuto(startAutoplay(AutoState, FALSE))

ToggleClick ==
  /\ "toggleClick" \in listeners
  /\ onToggleClick
  /\ op' = ControlOp
  /\ UNCHANGED <<configVars, navVars, dragVars, lifeVars, obsVars, twin>>

\* handleMouseEnter that pauses the way pause() does
handleMouseEnterSticky ==
  /\ SetAuto(IF playing THEN stopAutoplay(AutoState) ELSE AutoState)
  /\ manualPause' = (playing \/ manualPause)

handleMouseEnter ==
  /\ SetAuto(IF playing THEN stopAutoplay(AutoState) ELSE AutoState)
  /\ UNCHANGED manualPause

\* handleMouseLeave that does not consult manualPause
handleMouseLeaveForgetsPause ==
  /\ SetAuto(IF autoplay /\ ~playing
             THEN startAutoplay(AutoState, FALSE)
             ELSE AutoState)
  /\ UNCHANGED manualPause

handleMouseLeave ==
  /\ SetAuto(IF autoplay /\ ~manualPause /\ ~playing
             THEN startAutoplay(AutoState, manualPause)
             ELSE AutoState)
  /\ UNCHANGED manualPause

\* a mouseenter event on the root; its handler exists when pauseOnHover
MouseEnter ==
  /\ IsLive
  /\ op' = NoOp
  /\ IF "mouseenter" \in listeners THEN handleMouseEnter
     ELSE UNCHANGED autoVars
  /\ UNCHANGED <<navVars, dragVars, lifeVars, obsVars, twin, configVars>>

\* a mouseleave event on the root; its handler exists when pauseOnHover
MouseLeave ==
  /\ IsLive
  /\ op' = NoOp
  /\ IF "mouseleave" \in listeners THEN handleMouseLeave
     ELSE UNCHANGED autoVars
  /\ UNCHANGED <<navVars, dragVars, lifeVars, obsVars, twin, configVars>>

\* handleResize: the debounce timeout is cleared and set again
Resize ==
  /\ "resize" \in listeners
  /\ ~resizeT
  /\ resizeT' = TRUE
  /\ op' = NoOp
  /\ UNCHANGED <<configVars, navVars, dragVars, autoVars, status, env,
                 listeners, dotsContainer, obsVars, twin, sched>>

\* the debounce timeout: computeSlideWidth and an unanimated re-align
ResizeTimeout ==
  /\ resizeT
  /\ resizeT' = FALSE
  /\ slideWidth' \in SlideWidths
  /\ trackX' = (-slideWidth' * currentIndex)
               + (IF direction = "rtl"
                  THEN slideWidth' * Len0 - containerWidth ELSE 0)
  /\ trackTransition' = FALSE
  /\ op' = NoOp
  /\ UNCHANGED <<realCount, infinite, loop, direction, autoplay,
                 containerWidth, workingSlides, domSlides, currentIndex,
                 transitionInProgress, activeDots, pending, spent, dragVars,
                 autoVars, status, env, listeners, dotsContainer, obsVars,
                 twin, sched>>

\* destroy() of the returned object
Destroy ==
  /\ Returned
  /\ status' = "destroyed"
  /\ SetAuto(stopAutoplay(AutoState))
  /\ listeners' = {}
  /\ domSlides' = SelectSeq(domSlides, LAMBDA sl : ~sl.clone)
  /\ trackTransition' = FALSE
  /\ trackX' = 0
  /\ op' = NoOp
  /\ UNCHANGED <<realCount, infinite, loop, direction, autoplay, slideWidth,
                 containerWidth, workingSlides, currentIndex,
                 transitionInProgress, activeDots, pending, spent, dragVars,
                 manualPause, env, dotsContainer, resizeT, obsVars, twin,
                 sched>>

\* a transitionend event that a listener of the track acts on
LifeTransitionEnd ==
  \E e \in Targets :
    /\ Dispatch(NavState, pending, e).recs # pending
    /\ transitionEnd(e)
    /\ op' = NoOp
    /\ UNCHANGED <<configVars, dragVars, autoVars, lifeVars, obsVars, twin>>

LifeFallbackTimer ==
  /\ pending # <<>>
  /\ fallback
  /\ op' = NoOp
  /\ UNCHANGED <<configVars, dragVars, autoVars, lifeVars, obsVars, twin>>

LifeSpentTimer ==
  /\ spent > 0
  /\ spent' = spent - 1
  /\ op' = NoOp
  /\ UNCHANGED <<configVars, currentIndex, transitionInProgress, trackX,
                 trackTransition, activeDots, pending, dragVars, autoVars,
                 lifeVars, obsVars, twin>>

\* getState() of the returned object reads and writes nothing
GetState ==
  /\ status \in {"live", "destroyed"}
  /\ op' = NoOp
  /\ UNCHANGED <<progVars, lifeVars, obsVars, twin>>

LifeNext ==
  \/ CreateSlider
  \/ LifeCallNext
  \/ LifeCallPrev
  \/ NextClick
  \/ PrevClick
  \/ LifeGoToUserIndex
  \/ LifeDotClick
  \/ LifeAutoplayTick
  \/ LifePointerDown
  \/ LifePointerMove
  \/ LifePointerUp
  \/ Blur
  \/ Play
  \/ Pause
  \/ ToggleClick
  \/ MouseEnter
  \/ MouseLeave
  \/ Resize
  \/ ResizeTimeout
  \/ Destroy
  \/ LifeTransitionEnd
  \/ LifeFallbackTimer
  \/ LifeSpentTimer
  \/ GetState

LifeSpec == LifeInit /\ [][LifeNext]_vars

\* ================= two controllers that differ in loop =================
\* A third specification: beside the controller of Spec a second one is
\* created on an identical page with the same options but the other value
\* of loop, and every call, event and timeout reaches both.  The second
\* controller is the record twin; its handlers are the same code written as
\* functions of that record and of its value of loop.  setupClones does not
\* read loop, so both controllers hold the same workingSlides.

\* createSlider for the twin: init() with loop = lp
twinCreate(lp) ==
  LET c == setupClones(ensureDomVisualOrder(direction, realCount),
                       infinite, realCount)
  IN [on |-> TRUE, loop |-> lp, len |-> Len(c.ws),
      cur |-> c.cur, tip |-> FALSE,
      x |-> computeX(c.cur), tr |-> FALSE,
      dots |-> updateDots(c.cur).active,
      pending |-> <<>>, spent |-> 0,
      isDragging |-> FALSE, dragStartX |-> 0, dragCurrentX |-> 0]

\* the part of the twin that cleanup writes, and its write back
twinNav(t) == [cur |-> t.cur, x |-> t.x, tr |-> t.tr, dots |-> t.dots,
               tip |-> t.tip]

twinSetNav(t, st, recs) ==
  [t EXCEPT !.cur = st.cur, !.x = st.x, !.tr = st.tr, !.dots = st.dots,
            !.tip = st.tip, !.pending = recs]

twinGoTo(t, index) ==
  IF t.tip THEN t
  ELSE LET idx == IF ~infinite
                  THEN IF ~t.loop THEN Max(0, Min(index, t.len - 1))
                       ELSE JsRem(JsRem(index, t.len) + t.len, t.len)
                  ELSE index
       IN [t EXCEPT !.tip = TRUE, !.x = computeX(idx), !.tr = TRUE,
                    !.pending = Append(@, NewClosure(idx))]

\* next() that consults loop before infinite
twinNextLoopFirst(t) ==
  IF t.cur = t.len - 1
  THEN IF t.loop THEN twinGoTo(t, t.len) ELSE t
  ELSE twinGoTo(t, t.cur + 1)

twinNext(t) ==
  IF ~infinite /\ t.cur = t.len - 1
  THEN IF t.loop THEN twinGoTo(t, t.len) ELSE t
  ELSE twinGoTo(t, t.cur + 1)

twinPrev(t) ==
  IF ~infinite /\ t.cur = 0
  THEN IF t.loop THEN twinGoTo(t, t.len - 1) ELSE t
  ELSE twinGoTo(t, t.cur - 1)

twinGoToUserIndex(t, i) == twinGoTo(t, IF infinite THEN i + 1 ELSE i)

twinDotsClick(t, k) ==
  LET visualIndex == IF direction = "rtl" THEN realCount - 1 - k ELSE k
  IN twinGoTo(t, IF infinite THEN visualIndex + 1 ELSE visualIndex)

twinTick(t) ==
  IF ~t.tip THEN IF direction = "rtl" THEN twinNext(t) ELSE twinPrev(t)
  ELSE t

twinPointerDown(t, x) ==
  [t EXCEPT !.isDragging = TRUE, !.dragStartX = x, !.dragCurrentX = x,
            !.tip = FALSE, !.tr = FALSE]

twinPointerMove(t, x) ==
  IF ~t.isDragging THEN t
  ELSE [t EXCEPT !.dragCurrentX = x,
                 !.x = computeX(t.cur) + (x - t.dragStartX),
                 !.tr = FALSE]

twinPointerUp(t) ==
  IF ~t.isDragging THEN t
  ELSE LET diff == t.dragCurrentX - t.dragStartX
           u == [t EXCEPT !.isDragging = FALSE]
       IN IF Abs(diff) > 40 /\ Abs(diff) * 100 > slideWidth * 15
          THEN IF diff > 0 THEN twinPrev(u) ELSE twinNext(u)
          ELSE twinGoTo(u, u.cur)

twinTransitionEnd(t, e) ==
  LET r == Dispatch(twinNav(t), t.pending, e)
  IN [twinSetNav(t, r.st, Live(r.recs)) EXCEPT
        !.spent = @ + Called(r.recs)]

\* the fallback timeout of the twin's oldest closure not yet called
twinFallback(t) ==
  IF t.pending = <<>> THEN t
  ELSE twinSetNav(t, onEnd(twinNav(t), Head(t.pending), "none").st,
                  Tail(t.pending))

\* the fallback timeout of a closure of the twin already called
twinSpent(t) == [t EXCEPT !.spent = Max(0, @ - 1)]

\* the second controller is created right after the first
TwinCreate ==
  /\ infinite
  /\ ~twin.on
  /\ twin' = twinCreate(~loop)
  /\ UNCHANGED <<progVars, lifeVars, obsVars, op>>

TwinCallNext ==
  /\ twin.on
  /\ next
  /\ twin' = twinNext(twin)
  /\ UNCHANGED <<configVars, dragVars, autoVars, lifeVars, obsVars, op>>

TwinCallPrev ==
  /\ twin.on
  /\ prev
  /\ twin' = twinPrev(twin)
  /\ UNCHANGED <<configVars, dragVars, autoVars, lifeVars, obsVars, op>>

TwinGoToUserIndex ==
  \E i \in 0..(realCount - 1) :
    /\ twin.on
    /\ goToUserIndex(i)
    /\ twin' = twinGoToUserIndex(twin, i)
    /\ UNCHANGED <<configVars, dragVars, autoVars, lifeVars, obsVars, op>>

TwinDotClick ==
  \E k \in 0..(realCount - 1) :
    /\ twin.on
    /\ onDotsClick(k)
    /\ twin' = twinDotsClick(twin, k)
    /\ UNCHANGED <<configVars, dragVars, autoVars, lifeVars, obsVars, op>>

\* both intervals are started and stopped by the same calls and events
TwinAutoplayTick ==
  /\ twin.on
  /\ intervals > 0
  /\ autoplayTick
  /\ twin' = twinTick(twin)
  /\ UNCHANGED <<configVars, dragVars, autoVars, lifeVars, obsVars, op>>

TwinPointerDown ==
  \E x \in DownXs :
    /\ twin.on
    /\ pointerDown(x)
    /\ twin' = twinPointerDown(twin, x)
    /\ UNCHANGED <<configVars, lifeVars, obsVars, op>>

TwinPointerMove ==
  \E x \in MoveXs :
    /\ twin.on
    /\ isDragging
    /\ pointerMove(x)
    /\ twin' = twinPointerMove(twin, x)
    /\ UNCHANGED <<configVars, autoVars, lifeVars, obsVars, op>>

TwinPointerUp ==
  /\ twin.on
  /\ isDragging
  /\ pointerUp
  /\ twin' = twinPointerUp(twin)
  /\ UNCHANGED <<configVars, lifeVars, obsVars, op>>

\* the two tracks run the same transitions: an event on one comes with the
\* same event on the other
TwinTransitionEnd ==
  \E e \in Targets :
    /\ twin.on
    /\ Dispatch(NavState, pending, e).recs # pending
    /\ transitionEnd(e)
    /\ twin' = twinTransitionEnd(twin, e)
    /\ UNCHANGED <<configVars, dragVars, autoVars, lifeVars, obsVars, op>>

\* the oldest fallback timeout of each controller
TwinFallbackTimer ==
  /\ twin.on
  /\ pending # <<>>
  /\ fallback
  /\ twin' = twinFallback(twin)
  /\ UNCHANGED <<configVars, dragVars, autoVars, lifeVars, obsVars, op>>

TwinSpentTimer ==
  /\ twin.on
  /\ spent > 0
  /\ spent' = spent - 1
  /\ twin' = twinSpent(twin)
  /\ UNCHANGED <<configVars, currentIndex, transitionInProgress, trackX,
                 trackTransition, activeDots, pending, dragVars, autoVars,
                 lifeVars, obsVars, op>>

TwinNext ==
  \/ TwinCreate
  \/ TwinCallNext
  \/ TwinCallPrev
  \/ TwinGoToUserIndex
  \/ TwinDotClick
  \/ TwinAutoplayTick
  \/ TwinPointerDown
  \/ TwinPointerMove
  \/ TwinPointerUp
  \/ TwinTransitionEnd
  \/ TwinFallbackTimer
  \/ TwinSpentTimer

TwinSpec == Init /\ [][TwinNext]_vars

\* ================= autoplay on the clock =================
\* A fourth specification: autoplay is the only source of motion, and the
\* interval of startAutoplay, the fallback timeout of goTo and the
\* transitionend event come at the times the code and the style sheet give
\* them.  sched holds, in milliseconds, the time left until the interval
\* fires next (toTick), until each outstanding fallback timeout fires
\* (falls, oldest first) and until the transition of each waiting closure
\* ends (ends, -1 once no event is to come).
Speeds == {0, 500}      \* options.speed (ms); 500 is the default
Delays == {0, 2000}     \* options.delay (ms); 2000 is the default
MinDelay == 200         \* Math.max(200, delay)
FallbackSlack == 160    \* setTimeout(..., speed + 160)

\* the period of the setInterval of startAutoplay
Period(sp, dl) == Max(MinDelay, dl) + sp
\* the delay of the fallback setTimeout of goTo
FallbackDelay(sp) == sp + FallbackSlack

\* the options speed and delay, and the interval init() has started
StartClock ==
  /\ ~sched.on
  /\ IsLive /\ intervals > 0
  /\ \E sp \in Speeds, dl \in Delays :
       sched' = [on |-> TRUE, speed |-> sp, delay |-> dl,
                 toTick |-> Period(sp, dl), falls |-> <<>>, ends |-> <<>>]
  /\ UNCHANGED <<progVars, status, env, listeners, dotsContainer, resizeT,
                 obsVars, op, twin>>

\* the time left on every timer that is set
TimersLeft ==
  {sched.toTick} \cup {sched.falls[i] : i \in DOMAIN sched.falls}
    \cup {sched.ends[i] : i \in {j \in DOMAIN sched.ends : sched.ends[j] >= 0}}
NothingDue == \A t \in TimersLeft : t > 0

\* time passes until the next timer is due
Advance ==
  /\ sched.on /\ NothingDue
  /\ LET d == CHOOSE t \in TimersLeft : \A u \in TimersLeft : t <= u
     IN sched' = [sched EXCEPT
                    !.toTick = @ - d,
                    !.falls = [i \in DOMAIN @ |-> @[i] - d],
                    !.ends = [i \in DOMAIN @ |->
                                IF @[i] >= 0 THEN @[i] - d ELSE @[i]]]
  /\ UNCHANGED <<progVars, status, env, listeners, dotsContainer, resizeT,
                 obsVars, op, twin>>

\* the interval fires: the tick, and the timers of the goTo it may start
TimedTick ==
  /\ sched.on /\ sched.toTick = 0 /\ intervals > 0
  /\ autoplayTick
  /\ sched' = [sched EXCEPT
                 !.toTick = Period(sched.speed, sched.delay),
                 !.falls = IF Len(pending') > Len(pending)
                           THEN Append(@, FallbackDelay(sched.speed)) ELSE @,
                 !.ends = IF Len(pending') > Len(pending)
                          THEN Append(@, sched.speed) ELSE @]
  /\ op' = [name |-> "tick", arg |-> 0]
  /\ UNCHANGED <<configVars, dragVars, autoVars, status, env, listeners,
                 dotsContainer, resizeT, obsVars, twin>>

\* the transition of the oldest waiting closure ends and the track
\* dispatches transitionend to every listener still registered
TimedTransitionEnd ==
  /\ sched.on /\ sched.ends # <<>> /\ Head(sched.ends) = 0
  /\ transitionEnd("track")
  /\ sched' = [sched EXCEPT !.ends = <<>>]
  /\ op' = NoOp
  /\ UNCHANGED <<configVars, dragVars, autoVars, status, env, listeners,
                 dotsContainer, resizeT, obsVars, twin>>

\* the transition ends without an event (nothing to animate, hidden page)
NoTransitionEnd ==
  /\ sched.on /\ sched.ends # <<>> /\ Head(sched.ends) = 0
  /\ sched' = [sched EXCEPT !.ends[1] = -1]
  /\ UNCHANGED <<progVars, status, env, listeners, dotsContainer, resizeT,
                 obsVars, op, twin>>

\* the oldest fallback timeout fires; the closures already called are the
\* older ones, since transitionend reaches every waiting closure at once
TimedFallback ==
  /\ sched.on /\ sched.falls # <<>> /\ Head(sched.falls) = 0
  /\ IF spent > 0
     THEN /\ spent' = spent - 1
          /\ UNCHANGED <<currentIndex, transitionInProgress, trackX,
                         trackTransition, activeDots, pending>>
          /\ sched' = [sched EXCEPT !.falls = Tail(@)]
     ELSE /\ fallback
          /\ sched' = [sched EXCEPT !.falls = Tail(@), !.ends = Tail(@)]
  /\ op' = NoOp
  /\ UNCHANGED <<configVars, dragVars, autoVars, status, env, listeners,
                 dotsContainer, resizeT, obsVars, twin>>

TimedNext ==
  \/ StartClock
  \/ Advance
  \/ TimedTick
  \/ TimedTransitionEnd
  \/ NoTransitionEnd
  \/ TimedFallback

TimedSpec == Init /\ [][TimedNext]_vars

\* ======================= properties =======================
FiniteNoLoop == ~infinite /\ ~loop
AfterInit == seq.on /\ seq.nx = 0 /\ seq.pv = 0
IsClone(i) == InRange(i) /\ SlideAt(i).clone

\* position a finite, non-looping slider is at after next()^nx prev()^pv
PosAfterNexts == Min(seq.start + seq.nx, Len0 - 1)
\* the last call of the run was made at the boundary it moves towards
LastCallAtBoundary ==
  IF seq.pv > 0 THEN Max(0, PosAfterNexts - (seq.pv - 1)) = 0
  ELSE seq.nx > 0 /\ Min(seq.start + seq.nx - 1, Len0 - 1) = Len0 - 1

\* C1: in every reachable state at most one started goTo has a settle that
\* has not run yet.
C1_AtMostOneInFlight ==
  Cardinality({i \in DOMAIN pending : pending[i].runs = 0}) <= 1

\* C2: a goTo requested (by next, prev, goToUserIndex, a dot click or an
\* autoplay tick) while transitionInProgress is true changes nothing and
\* registers no closure; a pointermove or pointerup without an active drag
\* changes nothing either.
C2_DroppedNotQueued ==
  [][(ignored' = "goTo" \/ ignored' = "pointer") => UNCHANGED progVars]_vars

C2_Witness ==
  ignored = "goTo" /\ transitionInProgress /\ pending # <<>>

\* C3: the settle logic of a goTo closure runs exactly once: no closure
\* waiting for its event or timeout has run it, and every closure whose
\* timeout has fired has run it once, whichever of event and timeout came
\* first.
C3_SettleOnce ==
  /\ \A i \in DOMAIN pending : pending[i].runs = 0
  /\ retired \subseteq {1}

C3_Witness == retired = {1} /\ spent > 0

\* C4: with the fallback timeouts firing, every transition in flight
\* settles: transitionInProgress always returns to false.
C4_TransitioningLeadsToIdle ==
  transitionInProgress ~> ~transitionInProgress

\* C5: in infinite mode a closure that settles alone commits currentIndex 1
\* when its target is the trailing clone, workingSlides.length-2 when its
\* target is the leading clone, and its target otherwise.
SettleExpected(idx) ==
  IF IsClone(idx) /\ idx = Len0 - 1 THEN 1
  ELSE IF IsClone(idx) /\ idx = 0 THEN Len0 - 2
  ELSE idx

C5_SettleTarget ==
  [][(infinite /\ pending # <<>> /\ pending' = Tail(pending))
       => currentIndex' = SettleExpected(Head(pending).index)]_vars

\* C6 (as claimed): in infinite mode 1 <= currentIndex <= length-2 always.
C6_Original ==
  infinite => (1 <= currentIndex /\ currentIndex <= Len0 - 2)

\* C6 (amended): in infinite mode currentIndex never designates a boundary
\* clone, and with at least two real slides (when clones exist)
\* 1 <= currentIndex <= workingSlides.length-2 in every reachable state.
C6_NeverOnClone ==
  infinite => /\ ~IsClone(currentIndex)
              /\ realCount >= 2 =>
                   (1 <= currentIndex /\ currentIndex <= Len0 - 2)

C6_Witness ==
  /\ infinite /\ realCount >= 2 /\ Idle
  /\ seq.on /\ seq.start = Len0 - 2 /\ seq.nx = 1 /\ seq.pv = 0
  /\ currentIndex = 1

\* C7 (as claimed): right after initialization currentIndex is on a real
\* slide, and in infinite mode it is 1.
C7_Original ==
  AfterInit => /\ InRange(currentIndex) /\ ~IsClone(currentIndex)
               /\ infinite => currentIndex = 1

\* C7 (amended): right after initialization currentIndex is on a real
\* slide; in infinite mode it is 1 when there are at least two real slides
\* and 0 when there is a single slide (no clones are made); in finite mode
\* it is 0.
C7_InitOnRealSlide ==
  AfterInit => /\ InRange(currentIndex) /\ ~IsClone(currentIndex)
               /\ currentIndex = IF infinite /\ realCount >= 2 THEN 1 ELSE 0

C7_Witness ==
  AfterInit /\ infinite /\ realCount >= 2 /\ currentIndex = 1

\* C8: in finite mode without loop, prev() at index 0 and next() at the
\* last index change nothing and start no transition, so k settled next()
\* calls from index 0 end at min(k, realCount-1).
C8_HardStop ==
  (FiniteNoLoop /\ seq.on) =>
    /\ LastCallAtBoundary =>
         /\ ~transitionInProgress /\ pending = <<>>
         /\ currentIndex = (IF seq.pv > 0 THEN 0 ELSE Len0 - 1)
    /\ (Idle /\ seq.pv = 0 /\ seq.start = 0) =>
         currentIndex = Min(seq.nx, realCount - 1)

C8_Witness ==
  /\ FiniteNoLoop /\ realCount >= 2 /\ Idle
  /\ seq.on /\ seq.start = 0 /\ seq.pv = 0 /\ seq.nx > realCount - 1
  /\ currentIndex = realCount - 1

\* C9: in finite mode with loop, while the transition started by next() at
\* the last index is in flight the track holds realCount+1 slides (the
\* transient clone), and once it has settled currentIndex is 0 and the
\* track holds realCount slides again.
C9_TransientCloneWrap ==
  (~infinite /\ loop /\ seq.on /\ seq.pv = 0 /\ seq.nx = 1
     /\ seq.start = Len0 - 1) =>
    /\ transitionInProgress => Len(domSlides) = realCount + 1
    /\ Idle => (currentIndex = 0 /\ Len(domSlides) = realCount)

\* C10: n next() calls followed by n prev() calls, each made once the
\* calls before it have settled and with no drag or autoplay tick between
\* them, leave currentIndex where it was before the first call, in every
\* configuration.
C10_RoundTrip ==
  (seq.on /\ AllSettled /\ seq.nx = seq.pv) => currentIndex = seq.start

\* C11: goTo(currentIndex) made while no transition, drag or timeout is
\* outstanding moves neither the track nor currentIndex, and when the
\* closure it registers settles, currentIndex and the track stay where they
\* were and transitionInProgress is false again.
StartsGoToCurrent ==
  Idle /\ pending' = <<NewClosure(currentIndex)>>

SettlesGoToCurrent ==
  /\ Len(pending) = 1 /\ spent = 0 /\ ~isDragging
  /\ Head(pending).index = currentIndex
  /\ pending' = <<>>

C11_GoToCurrentIdempotent ==
  [][/\ StartsGoToCurrent =>
          (currentIndex' = currentIndex /\ trackX' = trackX)
     /\ SettlesGoToCurrent =>
          /\ currentIndex' = currentIndex
          /\ trackX' = trackX
          /\ ~transitionInProgress']_vars

\* the closure registered by the handler that ran last settles in this step
SettlesLastOp == pending # <<>> /\ pending' = <<>>

\* C12: goToUserIndex(i) called from Idle, for i in 0..realCount-1, settles
\* with currentIndex on the real slide whose visualIndex is i: index i in
\* finite mode and i+1 in infinite mode.
C12_UserIndexSettles ==
  [][(op.name = "goToUserIndex" /\ SettlesLastOp) =>
       /\ currentIndex' = (IF infinite THEN op.arg + 1 ELSE op.arg)
       /\ InRange(currentIndex')
       /\ ~SlideAt(currentIndex').clone
       /\ SlideAt(currentIndex').visualIndex = op.arg]_vars

\* C13: with direction rtl, a click from Idle on the dot whose stored
\* visualIndex is k settles on the slide whose realIndex is k, and dots[k],
\* which is dots[realCount-1-v] for the visualIndex v of that slide, is the
\* one active dot.
C13_RtlDotMapping ==
  [][(direction = "rtl" /\ op.name = "dot" /\ SettlesLastOp) =>
       /\ InRange(currentIndex')
       /\ SlideAt(currentIndex').realIndex = op.arg
       /\ activeDots' = {realCount - 1 - SlideAt(currentIndex').visualIndex}
       /\ activeDots' = {op.arg}]_vars

\* C14: an autoplay tick that finds no transition in flight does what
\* next() does when direction is ltr and what prev() does when it is rtl;
\* a tick that finds a transition in flight changes nothing.
C14_TickDirection ==
  [][op'.name = "tick" =>
       IF transitionInProgress THEN UNCHANGED navVars
       ELSE IF direction = "ltr" THEN next ELSE prev]_vars

\* C15: manualPause is sticky.  From a state in which manualPause is set,
\* every step other than play() or a toggle click (hover enter and leave,
\* pointer down, move and up, blur, ticks, settles, resize, pause()) leaves
\* it set with no autoplay interval running; the step that sets it, a
\* pause() or pausing toggle, leaves no interval running; and right after
\* a pointer release autoplay runs iff autoplay is configured and
\* manualPause is false.
Running == intervals > 0

C15_ManualPauseSticky ==
  [][/\ (manualPause
          /\ ~(manualPause' /\ ~Running' /\ ~playing' /\ ~timerId')) =>
          (Play \/ ToggleClick)
     /\ (~manualPause /\ manualPause') => (~Running' /\ ~playing')
     /\ op'.name = "release" =>
          /\ Running' = (autoplay /\ ~manualPause')
          /\ playing' = (autoplay /\ ~manualPause')]_vars

C15_Witness ==
  /\ op.name = "release" /\ manualPause /\ autoplay
  /\ ~Running /\ ~playing /\ ~isDragging

\* C16: when destroy() has run, no timer of the controller is pending
\* (autoplay interval, resize debounce timeout, fallback timeouts) and no
\* later step changes currentIndex or transitionInProgress, but for a goTo
\* that a method of the controller starts when called after destroy().
StartsTransition ==
  ~transitionInProgress /\ transitionInProgress'
    /\ currentIndex' = currentIndex
NoTimerPending ==
  intervals = 0 /\ ~timerId /\ ~resizeT /\ pending = <<>> /\ spent = 0

C16_DestroyStopsEverything ==
  [][/\ (status = "live" /\ status' = "destroyed") => NoTimerPending'
     /\ status = "destroyed" =>
          \/ UNCHANGED <<currentIndex, transitionInProgress>>
          \/ StartsTransition]_vars

\* C17: the step in which destroy() runs, in whatever state, leaves no
\* clone among the children of the track and no listener registered by the
\* controller: none of those on the root, the buttons, the dots, the track
\* and the window, and no transitionend listener of a goTo closure.
NoCloneInTrack == \A i \in DOMAIN domSlides : ~domSlides[i].clone
NoListener ==
  /\ listeners = {}
  /\ \A i \in DOMAIN pending : ~pending[i].listening

C17_DestroyRemovesAll ==
  [][(status = "live" /\ status' = "destroyed") =>
       (NoCloneInTrack' /\ NoListener')]_vars

\* C18: when the root, the track or every slide is missing, createSlider
\* returns no controller and has created nothing: no listener, no timer, no
\* clone, no dots container, and workingSlides is empty.
PageIncomplete == ~env.root \/ ~env.track \/ env.slides = 0

C18_NoPartialController ==
  (status # "uncreated" /\ PageIncomplete) =>
    /\ status \in {"aborted", "threw"}
    /\ listeners = {}
    /\ NoTimerPending
    /\ NoCloneInTrack
    /\ dotsContainer = (IF env.dots THEN "markup" ELSE "none")
    /\ workingSlides = <<>>

C18_Witness ==
  /\ status = "aborted" /\ env.root /\ env.track /\ env.slides = 0
  /\ listeners = {} /\ dotsContainer = "none"

\* C19: on a complete page an options.direction that is neither 'ltr' nor
\* 'rtl' does not make createSlider fail: the controller exists and its
\* direction (what getState().direction reports) is 'ltr'.
InvalidDirectionOption == env.direction \notin {"undefined", "ltr", "rtl"}

C19_InvalidDirectionFallsBack ==
  (status # "uncreated" /\ ~PageIncomplete /\ InvalidDirectionOption) =>
    /\ status \in {"live", "destroyed"}
    /\ direction = "ltr"

\* C20: infinite takes precedence over loop.  Two controllers with
\* infinite = true that differ only in loop, given the same calls, events
\* and timeouts, agree on currentIndex, on the length of workingSlides and
\* on transitionInProgress in every state they reach.
C20_LoopIgnoredWhenInfinite ==
  (twin.on /\ infinite) =>
    /\ twin.loop # loop
    /\ twin.cur = currentIndex
    /\ twin.len = Len0
    /\ twin.tip = transitionInProgress

\* both have wrapped backwards over the leading clone and jumped to the
\* last real slide
C20_Witness ==
  /\ twin.on /\ infinite /\ twin.loop # loop /\ realCount >= 2
  /\ Idle /\ twin.pending = <<>> /\ twin.spent = 0
  /\ ~trackTransition /\ ~twin.tr
  /\ currentIndex = Len0 - 2 /\ twin.cur = Len0 - 2

\* C21 (as claimed): workingSlides.length is realCount in finite mode and
\* realCount+2 in infinite mode, for every realCount >= 1 (realCount+1 is
\* allowed while a finite looping forward wrap is in flight).
ForwardWrapInFlight ==
  /\ ~infinite /\ loop /\ transitionInProgress
  /\ seq.on /\ seq.pv = 0 /\ seq.nx >= 1

C21_Original ==
  \/ Len0 = (IF infinite THEN realCount + 2 ELSE realCount)
  \/ (ForwardWrapInFlight /\ Len0 = realCount + 1)

\* C21 (amended): in every reachable state workingSlides.length is
\* realCount+2 in infinite mode with at least two real slides and realCount
\* otherwise (finite mode, and infinite mode with a single slide, for which
\* no clones are made); it is never realCount+1.
C21_WorkingLength ==
  Len0 = (IF infinite /\ realCount >= 2 THEN realCount + 2 ELSE realCount)

C21_Witness ==
  /\ infinite /\ realCount >= 2 /\ Len0 = realCount + 2
  /\ seq.on /\ seq.nx >= 1 /\ Idle /\ currentIndex = 1

\* C22: a drag and a programmatic transition never own the track together:
\* in no reachable state are isDragging and transitionInProgress both true.
C22_DragExcludesTransition == ~(isDragging /\ transitionInProgress)

\* C23: the settle of a closure that a pointer-down has interrupted, run by
\* its fallback timeout while a newer closure is still waiting, does not
\* clear transitionInProgress, which belongs to the newer transition.
StaleSettle ==
  /\ Len(pending) >= 2
  /\ pending' = Tail(pending)

C23_StaleSettleTolerated ==
  [][StaleSettle /\ transitionInProgress => transitionInProgress']_vars

\* C24: the pointer-down that starts a drag leaves no autoplay interval
\* running, and no mouseenter or mouseleave that arrives during the drag
\* starts one.
C24_DragSuspendsAutoplay ==
  [][/\ (~isDragging /\ isDragging') => intervals' = 0
     /\ (isDragging /\ intervals = 0 /\ (MouseEnter \/ MouseLeave))
          => intervals' = 0]_vars

\* C25: a pointer release with displacement d = dragCurrentX - dragStartX
\* acts as prev() when d exceeds max(40, 0.15 * slideWidth), as next() when
\* -d exceeds it, and as goTo(currentIndex) otherwise, the displacement that
\* equals the threshold included; the snap-back transition it starts settles
\* on the index the slider had at the release.
ReleaseStep == isDragging /\ ~isDragging' /\ op'.name = "release"
Displacement == dragCurrentX - dragStartX
\* |d| > max(40, 0.15 * slideWidth), in hundredths of a pixel
BeyondThreshold(d) == Abs(d) * 100 > Max(4000, 15 * slideWidth)
SnapBackStarted ==
  /\ ReleaseStep /\ ~BeyondThreshold(Displacement)
  /\ Len(pending') = Len(pending) + 1

C25_ReleaseThreshold ==
  [][/\ ReleaseStep =>
          IF BeyondThreshold(Displacement)
          THEN IF Displacement > 0 THEN prev ELSE next
          ELSE goTo(currentIndex)
     /\ SnapBackStarted =>
          cleanup(NavState, pending'[Len(pending')].index).cur
            = currentIndex]_vars

\* C26: at most one autoplay interval is running in any reachable state.
C26_OneInterval == intervals <= 1

\* play() was called while an interval was running, and one is running
C26_Witness ==
  /\ IsLive /\ op = [name |-> "control", arg |-> 1]
  /\ playing /\ timerId /\ intervals = 1

\* C27: with pauseOnHover set, a mouseenter that finds autoplay playing
\* stops the interval and leaves manualPause as it was; a mouseleave
\* starts the interval when autoplay is configured, manualPause is false
\* and autoplay is not playing, and changes nothing of autoplay otherwise.
\* With pauseOnHover unset no hover event changes the program's state.
LeaveRestarts == autoplay /\ ~manualPause /\ ~playing

C27_HoverPause ==
  [][/\ (env.pauseOnHover /\ playing /\ MouseEnter) =>
          /\ ~playing' /\ ~timerId' /\ intervals' = 0
          /\ manualPause' = manualPause
     /\ (env.pauseOnHover /\ LeaveRestarts /\ MouseLeave) =>
          /\ playing' /\ timerId' /\ intervals' = 1
          /\ manualPause' = manualPause
     /\ ~(env.pauseOnHover /\ ~LeaveRestarts /\ autoVars' # autoVars
            /\ MouseLeave)
     /\ ~(~env.pauseOnHover /\ progVars' # progVars
            /\ (MouseEnter \/ MouseLeave))]_vars

\* autoplay is configured and not paused by hand, no drag is in progress,
\* and yet no interval runs: a mouseenter has stopped it
C27_Witness ==
  /\ IsLive /\ env.pauseOnHover /\ autoplay /\ ~manualPause
  /\ ~isDragging /\ ~playing /\ intervals = 0

\* C28: once createSlider has returned, only a step in which a goTo closure
\* settles writes currentIndex: the calls of next(), prev(), goToUserIndex()
\* and goTo, the pointer handlers, the resize handler and its timeout, the
\* hover handlers, play(), pause(), the toggle button and getState() leave
\* it as it is.
SettleStep == Len(pending') < Len(pending)

C28_IndexWrittenBySettle ==
  [][(status # "uncreated" /\ currentIndex' # currentIndex) => SettleStep]_vars

\* a navigation call has started a transition to another index and
\* currentIndex still holds the old one
C28_Witness ==
  /\ IsLive /\ op.name \in {"goToUserIndex", "dot", "tick", "release"}
  /\ transitionInProgress /\ Len(pending) = 1
  /\ pending[1].index # currentIndex

\* C29: in finite mode with loop, prev() called at rest on index 0 starts
\* one transition straight to the last slide and settles there; no clone
\* enters the track and workingSlides keeps its realCount entries from the
\* call to the settle.
PrevAtFirst ==
  /\ ~infinite /\ loop
  /\ seq.on /\ seq.start = 0 /\ seq.nx = 0 /\ seq.pv = 1

C29_PrevWrapsDirectly ==
  PrevAtFirst =>
    /\ Len0 = realCount /\ Len(domSlides) = realCount /\ NoCloneInTrack
    /\ IF transitionInProgress
       THEN /\ currentIndex = 0
            /\ Len(pending) = 1 /\ pending[1].index = Len0 - 1
       ELSE /\ currentIndex = Len0 - 1 /\ pending = <<>>

\* the backward wrap has settled on the last of several slides
C29_Witness ==
  /\ PrevAtFirst /\ realCount >= 2
  /\ ~transitionInProgress /\ currentIndex = realCount - 1

\* C30: the dots container holds realCount dots, and from initialization on
\* exactly one of them is active: the one at position v under ltr and at
\* position realCount-1-v under rtl, v being the visualIndex of the slide at
\* currentIndex.  (Dots and currentIndex are written together, at init and
\* by every settle, so the property is stated for every state.)
C30_OneActiveDot ==
  /\ Cardinality(Dots) = realCount
  /\ activeDots \subseteq Dots
  /\ InRange(currentIndex)
  /\ LET v == SlideAt(currentIndex).visualIndex
     IN activeDots = {IF direction = "rtl" THEN realCount - 1 - v ELSE v}

\* C31: in every reachable state currentIndex is an index into
\* workingSlides: 0 <= currentIndex < workingSlides.length.
C31_IndexInRange == 0 <= currentIndex /\ currentIndex < Len0

\* C32: whenever the controller is at rest (no transition in flight, no
\* closure waiting, no drag active, no resize timeout pending) the track is
\* positioned at the slide of currentIndex.
AtRest ==
  /\ IsLive /\ ~transitionInProgress /\ pending = <<>>
  /\ ~isDragging /\ ~resizeT

C32_TrackAtCurrentIndex == AtRest => trackX = computeX(currentIndex)

\* C33: once createSlider has run, playing is true exactly when an autoplay
\* interval is running, and playing is false whenever manualPause is true.
C33_PlayingMeansInterval ==
  status # "uncreated" =>
    /\ playing <=> (intervals > 0)
    /\ playing <=> timerId
    /\ manualPause => ~playing

\* pause() has stopped a running autoplay
C33_Witness ==
  /\ IsLive /\ autoplay /\ op = [name |-> "control", arg |-> 1]
  /\ manualPause /\ ~playing /\ intervals = 0

\* C34: with autoplay: false no interval is ever started, whatever is
\* called or clicked: playing stays false, no interval runs and no autoplay
\* tick moves the slider.
C34_NeverStartsUnconfigured ==
  ~autoplay =>
    /\ ~playing /\ ~timerId /\ intervals = 0
    /\ op.name # "tick"

\* play() or a starting toggle click has just run with autoplay: false
C34_Witness ==
  /\ IsLive /\ ~autoplay /\ op.name = "control" /\ ~manualPause
  /\ ~playing /\ intervals = 0

\* C35: with autoplay as the only source of motion, every tick of the
\* interval finds the controller idle: no transition is in flight and no
\* closure waits, so no tick is dropped.
TickFires == sched.on /\ sched.toTick = 0 /\ sched'.toTick > 0

C35_TickFindsIdle ==
  [][TickFires => (~transitionInProgress /\ pending = <<>>)]_vars

====
